---- MODULE Spec2Model ----
(***************************************************************************)
(* Model of scripts/product_hunt_list_to_md.py: the daily job that fetches *)
(* yesterday's Product Hunt posts page by page, turns them into Products   *)
(* and posts a summary of the first ten to a webhook.                      *)
(***************************************************************************)
EXTENDS Integers, Sequences, FiniteSets, TLC

VARIABLES
    pc,             \* position of main(): main, loop, post, build, except, send, report, done, crashed
    all_posts,      \* fetch_product_hunt_data: accumulated raw records
    has_next_page,  \* fetch_product_hunt_data: loop flag
    cursor,         \* fetch_product_hunt_data: cursor for the next query
    query,          \* cursor carried by the last query built ("-" before any)
    data,           \* pageInfo of the last page read (valid = FALSE before any)
    posts,          \* nodes of the last page read
    total,          \* Retry.total left for the request in flight
    attempts,       \* HTTP attempts made for the request in flight
    response,       \* fetch_product_hunt_data: outcome of the last HTTP attempt
    error,          \* exception raised by fetch_product_hunt_data ("none" if none)
    source,         \* where main()'s products come from: none, api, mock
    products,       \* main(): the list handed to send_to_webhook
    payload,        \* send_to_webhook: the JSON document
    posted,         \* number of POSTs made to the webhook
    success,        \* return value of send_to_webhook: none, true, false
    webhook_response, \* send_to_webhook: outcome of its POST
    report,         \* last line printed by main()
    self,           \* the Product a method is called on (method-level specifications)
    env,            \* what that method is given: its argument, the page served at self.url
    fetched         \* number of GETs made by fetch_og_image_url

vars == <<pc, all_posts, has_next_page, cursor, query, data, posts, total,
          attempts, response, error, source, products, payload, posted,
          success, webhook_response, report, self, env, fetched>>

\* the variables of main() other than its position
job_vars == <<all_posts, has_next_page, cursor, query, data, posts, total,
              attempts, response, error, source, products, payload, posted,
              success, webhook_response, report>>

\* the variables of the method-level specifications
method_vars == <<self, env, fetched>>

----------------------------------------------------------------------------
(* Bounds of the model *)

\* vote counts of fetched records range over 1..MaxVote
MaxVote == 2

\* sizes of the pages the API may return
PageSizes == {0, 10, 20, 25}

\* opaque cursors the API may return as endCursor
Cursors == {"c1", "c2"}

----------------------------------------------------------------------------
(* Program constants *)

LoopLimit == 30
SliceLimit == 30
RetryTotal == 3
WebhookSlice == 10
MinIndex == 9

StatusForcelist == {429, 500, 502, 503, 504}

\* urllib3's Retry retries a status only for these methods unless
\* allowed_methods is passed; the Retry of the fetch passes none.
AllowedMethods == {"HEAD", "GET", "PUT", "DELETE", "OPTIONS", "TRACE"}

Min(a, b) == IF a < b THEN a ELSE b

----------------------------------------------------------------------------
(* Python helpers *)

\* s[:n]
Take(s, n) == SubSeq(s, 1, Min(n, Len(s)))

Keys(s) == {s[i].votesCount : i \in DOMAIN s}

MaxOf(S) == CHOOSE k \in S : \A j \in S : j <= k

RECURSIVE SortByKeys(_, _)
SortByKeys(s, keys) ==
    IF keys = {} THEN <<>>
    ELSE LET k == MaxOf(keys)
         IN  SelectSeq(s, LAMBDA r : r.votesCount = k) \o SortByKeys(s, keys \ {k})

MinOf(S) == CHOOSE k \in S : \A j \in S : k <= j

RECURSIVE SortByKeysAscending(_, _)
SortByKeysAscending(s, keys) ==
    IF keys = {} THEN <<>>
    ELSE LET k == MinOf(keys)
         IN  SelectSeq(s, LAMBDA r : r.votesCount = k)
                 \o SortByKeysAscending(s, keys \ {k})

\* mutant: reverse=True forgotten
sorted_ascending(s) == SortByKeysAscending(s, Keys(s))

\* sorted(s, key=votesCount, reverse=True): stable, equal keys keep their order
sorted(s) == SortByKeys(s, Keys(s))

RECURSIVE Sum(_)
Sum(s) == IF s = <<>> THEN 0 ELSE Head(s).votes_count + Sum(Tail(s))

----------------------------------------------------------------------------
(* Product *)

WellFormedTimes == {"2025-03-07T16:01:00Z", "2025-03-07T14:30:00Z"}

\* strptime(utc_time_str, '%Y-%m-%dT%H:%M:%SZ') raises ValueError on a mismatch
ParsesAsUtc(utc_time_str) == utc_time_str \in WellFormedTimes

convert_to_beijing_time(utc_time_str) ==
    CASE utc_time_str = "2025-03-07T16:01:00Z" -> "2025-03-08 AM12:01 (Beijing)"
      [] utc_time_str = "2025-03-07T14:30:00Z" -> "2025-03-07 PM10:30 (Beijing)"

\* Product(**post): the fields the pipeline reads
Product(post) ==
    [name |-> post.name,
     votes_count |-> post.votesCount,
     created_at |-> convert_to_beijing_time(post.createdAt)]

\* [Product(**post) for post in s]: raises as soon as one construction raises
ConstructionRaises(s) == \E i \in DOMAIN s : ~ParsesAsUtc(s[i].createdAt)

ProductList(s) == [i \in DOMAIN s |-> Product(s[i])]

mock_products ==
    << [id |-> 1, name |-> "Venice", votesCount |-> 566, createdAt |-> "2025-03-07T16:01:00Z"],
       [id |-> 2, name |-> "Mistral OCR", votesCount |-> 477, createdAt |-> "2025-03-07T16:01:00Z"],
       [id |-> 3, name |-> "AI Code Reviewer", votesCount |-> 324, createdAt |-> "2025-03-07T14:30:00Z"] >>

fetch_mock_data == ProductList(mock_products)

----------------------------------------------------------------------------
(* fetch_product_hunt_data *)

get_producthunt_token == "pfL-2mZeM7TWpumhKEfPwiQTeRp-SWuOZxNLMcZ3k28"

NoData == [valid |-> FALSE, hasNextPage |-> FALSE, endCursor |-> ""]
NoResponse == [kind |-> "none", status |-> 0]

\* a page of n records following the base records already served: each has
\* v votes, but the last has MaxVote votes when spike, and a malformed
\* createdAt when bad
MkPage(base, n, v, spike, bad) ==
    [i \in 1..n |->
        [id |-> base + i,
         name |-> ToString(base + i),
         votesCount |-> IF spike /\ i = n THEN MaxVote ELSE v,
         createdAt |-> IF bad /\ i = n THEN "not-a-date" ELSE "2025-03-07T16:01:00Z"]]

PagesAfter(base) ==
    {MkPage(base, n, v, spike, bad) :
        n \in PageSizes, v \in 1..MaxVote, spike \in BOOLEAN, bad \in BOOLEAN}

FetchStatuses == {200, 404, 429, 500, 502, 503, 504}

FetchOutcomes ==
    {[kind |-> "connect_error", status |-> 0], [kind |-> "read_error", status |-> 0]}
    \cup {[kind |-> "response", status |-> s] : s \in FetchStatuses}

\* Retry.is_retry(method, status_code)
is_retry(method, status) == method \in AllowedMethods /\ status \in StatusForcelist

\* Retry.increment on a read error re-raises it unless the method is retryable
ReadErrorRetryable(method) == method \in AllowedMethods

\* Response.raise_for_status()
raise_for_status(status) == 400 <= status /\ status < 600

\* main(): fetch_product_hunt_data() starts, up to the first test of the loop
FetchStart ==
    /\ pc = "main"
    /\ IF get_producthunt_token = ""
       THEN /\ error' = "Exception"
            /\ pc' = "except"
            /\ UNCHANGED <<all_posts, has_next_page, cursor>>
       ELSE /\ all_posts' = <<>>
            /\ has_next_page' = TRUE
            /\ cursor' = ""
            /\ pc' = "loop"
            /\ UNCHANGED error
    /\ UNCHANGED <<query, data, posts, total, attempts, response, source,
                   products, payload, posted, success,
                   webhook_response, report>>
    /\ UNCHANGED method_vars

LoopCondition == has_next_page /\ Len(all_posts) < LoopLimit

\* while has_next_page and len(all_posts) < 30: query = base_query % (..., cursor)
LoopTest ==
    /\ pc = "loop"
    /\ IF LoopCondition
       THEN /\ query' = cursor
            /\ total' = RetryTotal
            /\ attempts' = 0
            /\ pc' = "post"
       ELSE /\ pc' = "build"
            /\ UNCHANGED <<query, total, attempts>>
    /\ UNCHANGED <<all_posts, has_next_page, cursor, data, posts, response,
                   error, source, products, payload, posted, success,
                   webhook_response, report>>
    /\ UNCHANGED method_vars

\* an exception leaves fetch_product_hunt_data: its locals are gone
Raise(kind) ==
    /\ error' = kind
    /\ pc' = "except"
    /\ all_posts' = <<>>
    /\ posts' = <<>>
    /\ data' = NoData
    /\ has_next_page' = FALSE
    /\ cursor' = ""
    /\ attempts' = attempts + 1
    /\ UNCHANGED total

\* mutant: the cursor is never advanced
NextCursorStuck(pageInfo) == ""

\* cursor = data['pageInfo']['endCursor']
NextCursor(pageInfo) == pageInfo.endCursor

\* the try body after a response that raise_for_status accepts
ReadPage(body) ==
    /\ all_posts' = all_posts \o body.nodes
    /\ posts' = body.nodes
    /\ data' = [valid |-> TRUE, hasNextPage |-> body.hasNextPage,
                endCursor |-> body.endCursor]
    /\ has_next_page' = body.hasNextPage
    /\ cursor' = NextCursor(body)
    /\ pc' = "loop"
    /\ total' = 0
    /\ attempts' = 0
    /\ UNCHANGED error

\* one HTTP attempt of session.post(...) and what follows it inside the try
Attempt ==
    /\ pc = "post"
    /\ \E o \in FetchOutcomes :
        /\ response' = o
        /\ CASE o.kind = "connect_error" ->
                    IF total - 1 < 0
                    THEN Raise("Exception")
                    ELSE /\ total' = total - 1
                         /\ attempts' = attempts + 1
                         /\ UNCHANGED <<pc, error, all_posts, has_next_page,
                                        cursor, data, posts>>
             [] o.kind = "read_error" ->
                    IF ReadErrorRetryable("POST") /\ total - 1 >= 0
                    THEN /\ total' = total - 1
                         /\ attempts' = attempts + 1
                         /\ UNCHANGED <<pc, error, all_posts, has_next_page,
                                        cursor, data, posts>>
                    ELSE Raise("Exception")
             [] o.kind = "response" ->
                    IF is_retry("POST", o.status)
                    THEN IF total - 1 < 0
                         THEN Raise("Exception")
                         ELSE /\ total' = total - 1
                              /\ attempts' = attempts + 1
                              /\ UNCHANGED <<pc, error, all_posts, has_next_page,
                                             cursor, data, posts>>
                    ELSE IF raise_for_status(o.status)
                    THEN Raise("Exception")
                    ELSE \E b \in {"not_json", "not_json_old", "missing_key", "page"} :
                           CASE b = "not_json" -> Raise("Exception")
                             [] b = "not_json_old" -> Raise("JSONDecodeError")
                             [] b = "missing_key" -> Raise("KeyError")
                             [] b = "page" ->
                                  \E nodes \in PagesAfter(Len(all_posts)),
                                     more \in BOOLEAN, c \in Cursors :
                                       ReadPage([nodes |-> nodes, hasNextPage |-> more,
                                                 endCursor |-> c])
    /\ UNCHANGED <<query, source, products, payload, posted, success,
                   webhook_response, report>>
    /\ UNCHANGED method_vars

\* mutant: the slice taken before the sort
SelectedSliceFirst(all) == sorted(Take(all, SliceLimit))

\* sorted(all_posts, key=votesCount, reverse=True)[:30]
Selected(all) == Take(sorted(all), SliceLimit)

\* return [Product(**post) for post in sorted(...)[:30]]
Build ==
    /\ pc = "build"
    /\ IF ConstructionRaises(Selected(all_posts))
       THEN /\ error' = "ValueError"
            /\ pc' = "except"
            /\ UNCHANGED <<products, source>>
       ELSE /\ products' = ProductList(Selected(all_posts))
            /\ source' = "api"
            /\ pc' = "send"
            /\ UNCHANGED error
    /\ UNCHANGED <<all_posts, has_next_page, cursor, query, data, posts, total,
                   attempts, response, payload, posted, success,
                   webhook_response, report>>
    /\ UNCHANGED method_vars

----------------------------------------------------------------------------
(* main *)

ExceptionKinds == {"Exception", "ValueError", "JSONDecodeError", "KeyError"}

\* mutant: only the wrapped request failure is caught
CaughtRequestFailureOnly(kind) == kind = "Exception"

\* except Exception as e
Caught(kind) == kind \in ExceptionKinds

\* main(): the except branch, products = fetch_mock_data()
Except ==
    /\ pc = "except"
    /\ IF Caught(error)
       THEN /\ products' = fetch_mock_data
            /\ source' = "mock"
            /\ pc' = "send"
       ELSE /\ pc' = "crashed"
            /\ UNCHANGED <<products, source>>
    /\ UNCHANGED <<all_posts, has_next_page, cursor, query, data, posts, total,
                   attempts, response, error, payload, posted, success,
                   webhook_response, report>>
    /\ UNCHANGED method_vars

----------------------------------------------------------------------------
(* send_to_webhook *)

products_data(ps) ==
    [i \in 1..Len(Take(ps, WebhookSlice)) |->
        [rank |-> i, name |-> ps[i].name, votes |-> ps[i].votes_count]]

total_votes(ps) == Sum(Take(ps, WebhookSlice))

\* mutant: the average taken over the whole list
avg_votes_whole_list(ps) == IF ps # <<>> THEN total_votes(ps) \div Len(ps) ELSE 0

avg_votes(ps) ==
    IF ps # <<>> THEN total_votes(ps) \div Len(Take(ps, WebhookSlice)) ELSE 0

max_votes(ps) == IF ps # <<>> THEN ps[1].votes_count ELSE 0

\* products[min(9, len(products)-1)], 0-based
min_votes(ps) ==
    IF ps # <<>> THEN ps[Min(MinIndex, Len(ps) - 1) + 1].votes_count ELSE 0

BuildPayload(ps) ==
    [count |-> Len(products_data(ps)),
     total_votes |-> total_votes(ps),
     avg_votes |-> avg_votes(ps),
     max_votes |-> max_votes(ps),
     min_votes |-> min_votes(ps),
     list |-> products_data(ps)]

WebhookOutcomes ==
    {[kind |-> "transport_error", status |-> 0]}
    \cup {[kind |-> "response", status |-> s] : s \in {200, 304, 404, 500}}

\* mutant: only status 200 counts as sent
PostSucceedsOn200(o) == o.kind = "response" /\ o.status = 200

\* try: requests.post(...); raise_for_status(); return True / except: return False
PostSucceeds(o) == o.kind = "response" /\ ~raise_for_status(o.status)

SendToWebhook ==
    /\ pc = "send"
    /\ payload' = BuildPayload(products)
    /\ \E o \in WebhookOutcomes :
        /\ posted' = posted + 1
        /\ success' = IF PostSucceeds(o) THEN "true" ELSE "false"
        /\ webhook_response' = o
    /\ pc' = "report"
    /\ UNCHANGED <<all_posts, has_next_page, cursor, query, data, posts, total,
                   attempts, response, error, source, products, report>>
    /\ UNCHANGED method_vars

\* main(): if success: print(...) else: print(...)
Report ==
    /\ pc = "report"
    /\ report' = IF success = "true" THEN "completed" ELSE "completed_webhook_failed"
    /\ pc' = "done"
    /\ UNCHANGED <<all_posts, has_next_page, cursor, query, data, posts, total,
                   attempts, response, error, source, products, payload, posted,
                   success, webhook_response>>
    /\ UNCHANGED method_vars

----------------------------------------------------------------------------
(* The job *)

NoSelf == [name |-> <<>>]
NoEnv == [media |-> <<>>]

NoPayload == [count |-> 0, total_votes |-> 0, avg_votes |-> 0, max_votes |-> 0,
              min_votes |-> 0, list |-> <<>>]

\* nothing fetched, nothing sent
FetchIdle ==
    /\ all_posts = <<>>
    /\ has_next_page = FALSE
    /\ cursor = ""
    /\ query = "-"
    /\ data = NoData
    /\ posts = <<>>
    /\ total = 0
    /\ attempts = 0
    /\ response = NoResponse
    /\ error = "none"

WebhookIdle ==
    /\ payload = NoPayload
    /\ posted = 0
    /\ success = "none"
    /\ webhook_response = NoResponse
    /\ report = "none"

MethodIdle ==
    /\ self = NoSelf
    /\ env = NoEnv
    /\ fetched = 0

Init ==
    /\ pc = "main"
    /\ source = "none"
    /\ products = <<>>
    /\ FetchIdle
    /\ WebhookIdle
    /\ MethodIdle

Next ==
    \/ FetchStart
    \/ LoopTest
    \/ Attempt
    \/ Build
    \/ Except
    \/ SendToWebhook
    \/ Report

Spec == Init /\ [][Next]_vars

\* fetch_product_hunt_data() from its call by main() to its return or its
\* exception; it runs on its own, each step taken when the previous one ends
NextFetch ==
    \/ FetchStart
    \/ LoopTest
    \/ Attempt
    \/ Build

SpecFetch == Init /\ [][NextFetch]_vars /\ WF_vars(NextFetch)

----------------------------------------------------------------------------
(* send_to_webhook, called on its own with any list of Products *)

MaxProducts == 11

WebhookVotes == {0, 3}

ProductLists ==
    UNION {{[i \in 1..n |-> [name |-> ToString(i), votes_count |-> f[i],
                             created_at |-> "2025-03-08 AM12:01 (Beijing)"]] :
              f \in [1..n -> WebhookVotes]} : n \in 0..MaxProducts}

InitWebhook ==
    /\ pc = "send"
    /\ source = "none"
    /\ products \in ProductLists
    /\ FetchIdle
    /\ WebhookIdle
    /\ MethodIdle

NextWebhook ==
    \/ SendToWebhook
    \/ Report

SpecWebhook == InitWebhook /\ [][NextWebhook]_vars

----------------------------------------------------------------------------
(* Properties of main() and fetch_product_hunt_data() *)

MockNames == <<"Venice", "Mistral OCR", "AI Code Reviewer">>
MockVotes == <<566, 477, 324>>

IsMockList(ps) ==
    /\ Len(ps) = 3
    /\ \A i \in 1..3 : ps[i].name = MockNames[i] /\ ps[i].votes_count = MockVotes[i]

\* C1: whenever fetch_product_hunt_data() raises, the exception does not leave
\* main(): the products become the 3 mock products and send_to_webhook is
\* called exactly once, with those 3 products.
C1_FallbackOnFetchFailure ==
    error # "none" =>
        /\ pc \in {"except", "send", "report", "done"}
        /\ pc \in {"send", "report", "done"} => source = "mock" /\ IsMockList(products)
        /\ pc \in {"except", "send"} => posted = 0
        /\ pc \in {"report", "done"} =>
               /\ posted = 1
               /\ payload.count = 3
               /\ \A i \in 1..3 : payload.list[i].name = MockNames[i]

C1_Witness == error = "KeyError" /\ pc = "done" /\ posted = 1 /\ source = "mock"

\* C2: when fetch_product_hunt_data() returns normally, the list has at most
\* 30 Products and their votes_count values are in non-increasing order.
C2_AtMostThirtyDescending ==
    source = "api" =>
        /\ Len(products) <= 30
        /\ \A i, j \in DOMAIN products :
               i < j => products[i].votes_count >= products[j].votes_count

C2_Witness ==
    /\ source = "api"
    /\ Len(all_posts) > 30
    /\ Len(products) = 30
    /\ products[1].votes_count > products[30].votes_count
    /\ \E i \in 1..(Len(all_posts) - 1) :
           all_posts[i].votesCount < all_posts[i + 1].votesCount

\* the positions in all_posts of the records that became products
Chosen == {i \in DOMAIN all_posts :
              \E k \in DOMAIN products : products[k].name = all_posts[i].name}

PositionOf(p) == CHOOSE i \in DOMAIN all_posts : all_posts[i].name = p.name

GaveUpOnRetryable ==
    /\ error = "Exception"
    /\ \/ response.kind \in {"connect_error", "read_error"}
       \/ response.kind = "response" /\ response.status \in {429, 500, 502, 503, 504}

C4_RetriesBeforeGivingUp ==
    /\ GaveUpOnRetryable => attempts = 1 + 3
    /\ (response.kind = "response" /\ response.status >= 400) =>
           error = "Exception" /\ source # "api"

\* C6 as stated: exactly one POST per call; a 2xx response gives True, any
\* non-2xx response or transport error gives False without a retry or an
\* exception, and main() still runs to its end.
Is2xx(o) == o.kind = "response" /\ o.status >= 200 /\ o.status < 300

C6_NonSuccessIsFailure ==
    /\ posted <= 1
    /\ pc \in {"report", "done"} =>
           /\ posted = 1
           /\ success = (IF Is2xx(webhook_response) THEN "true" ELSE "false")
    /\ pc = "report" => ENABLED Report
    /\ pc = "done" =>
           report = (IF Is2xx(webhook_response)
                     THEN "completed" ELSE "completed_webhook_failed")

\* C6 as amended: exactly one POST per call; a response with a status below
\* 400 gives True, a 4xx or 5xx response or a transport error gives False
\* without a retry or an exception, and main() still runs to its end,
\* reporting completion with a webhook failure.
Below400(o) == o.kind = "response" /\ o.status < 400

C6_OnePostNeverFatal ==
    /\ posted <= 1
    /\ pc \in {"report", "done"} =>
           /\ posted = 1
           /\ success = (IF Below400(webhook_response) THEN "true" ELSE "false")
    /\ pc = "report" => ENABLED Report
    /\ pc = "done" =>
           report = (IF Below400(webhook_response)
                     THEN "completed" ELSE "completed_webhook_failed")

C6_Witness ==
    /\ pc = "done"
    /\ posted = 1
    /\ success = "false"
    /\ webhook_response.kind = "transport_error"
    /\ report = "completed_webhook_failed"

\* C9: the first request carries an empty cursor, each later request carries
\* the endCursor of the page before it, and a further request is issued if and
\* only if that page reported hasNextPage and fewer than 30 records are
\* accumulated; a retry uses up the retry budget, and a page that reports
\* hasNextPage and holds a record brings the count closer to 30, so the loop
\* stops issuing requests unless the API keeps answering empty pages that
\* report hasNextPage.
C9_CursorProtocol ==
    [][/\ pc = "loop" =>
            /\ (pc' = "post") <=>
                   ((~data.valid \/ data.hasNextPage) /\ Len(all_posts) < 30)
            /\ (pc' = "post") =>
                   query' = (IF data.valid THEN data.endCursor ELSE "")
       /\ (pc = "post" /\ pc' = "post") => (total' < total /\ total' >= 0)
       /\ (pc = "post" /\ pc' = "loop") =>
            /\ data'.valid
            /\ (data'.hasNextPage /\ posts' # <<>>) =>
                   Len(all_posts') > Len(all_posts)]_vars

\* the liveness reading of C9, under the fairness of SpecFetch
Stalled == data.valid /\ data.hasNextPage /\ posts = <<>>

C9_EventuallyStops == ([]<>~Stalled) => <>(pc \notin {"loop", "post"})

C9_Witness ==
    /\ pc = "post"
    /\ data.valid
    /\ query = "c2"
    /\ Len(all_posts) = 20

\* C10: when all page requests succeed and one of the selected top-30 records
\* has a malformed createdAt, the well-formed fetched records are still turned
\* into Products and published, not replaced by the 3 mock products.
WellFormedSelected ==
    SelectSeq(Take(sorted(all_posts), 30), LAMBDA r : ParsesAsUtc(r.createdAt))

C10_RecordLevelResilience ==
    (pc = "done" /\ error = "ValueError") =>
        /\ source = "api"
        /\ Len(products) = Len(WellFormedSelected)
        /\ \A i \in DOMAIN products : products[i].name = WellFormedSelected[i].name

----------------------------------------------------------------------------
(* Properties of send_to_webhook *)

RECURSIVE SumFirst(_, _)
SumFirst(ps, k) == IF k = 0 THEN 0 ELSE SumFirst(ps, k - 1) + ps[k].votes_count

\* C5: the payload lists the first min(10, n) inputs in input order with ranks
\* 1..min(10, n); total votes is their sum; average votes is
\* floor(total / min(10, n)), 0 when empty; max votes is the first input's
\* votes; min votes is the 10th input's votes, or the last input's when there
\* are fewer than 10; both 0 when empty.
C5_PayloadStatistics ==
    pc \in {"report", "done"} =>
        LET n == Len(products)
            k == IF n < 10 THEN n ELSE 10
        IN  /\ payload.count = k
            /\ Len(payload.list) = k
            /\ \A i \in 1..k :
                   /\ payload.list[i].rank = i
                   /\ payload.list[i].name = products[i].name
                   /\ payload.list[i].votes = products[i].votes_count
            /\ payload.total_votes = SumFirst(products, k)
            /\ IF n = 0
               THEN payload.avg_votes = 0 /\ payload.max_votes = 0 /\ payload.min_votes = 0
               ELSE /\ payload.avg_votes * k <= payload.total_votes
                    /\ payload.total_votes < (payload.avg_votes + 1) * k
                    /\ payload.max_votes = products[1].votes_count
                    /\ payload.min_votes =
                           products[IF n >= 10 THEN 10 ELSE n].votes_count

C5_Witness ==
    /\ pc = "done"
    /\ Len(products) = 11
    /\ payload.count = 10
    /\ products[10].votes_count # products[11].votes_count
    /\ products[1].votes_count < products[2].votes_count
    /\ payload.avg_votes * 10 < payload.total_votes

----------------------------------------------------------------------------
(* Product.generate_keywords, called on its own                            *)
(* A str is a sequence of characters; a character is a one-character       *)
(* string, or a whole word standing for a run of letters.                  *)

MaxNameLen == 2
MaxTaglineLen == 3

Chars == {"a", "b", " ", ",", "&", "|", "-"}

RECURSIVE StringsUpTo(_)
StringsUpTo(n) ==
    IF n = 0 THEN {<<>>}
    ELSE LET shorter == StringsUpTo(n - 1)
         IN  shorter \cup {Append(t, c) : t \in shorter, c \in Chars}

\* str.replace(old, new) for one-character old
Replace(str, old, new) == [i \in DOMAIN str |-> IF str[i] = old THEN new ELSE str[i]]

\* index of the first occurrence of sep in str at or after i, 0 if none
RECURSIVE Find(_, _, _)
Find(str, sep, i) ==
    IF i + Len(sep) - 1 > Len(str) THEN 0
    ELSE IF SubSeq(str, i, i + Len(sep) - 1) = sep THEN i
    ELSE Find(str, sep, i + 1)

\* str.split(sep)
RECURSIVE Split(_, _)
Split(str, sep) ==
    LET i == Find(str, sep, 1)
    IN  IF i = 0 THEN <<str>>
        ELSE <<SubSeq(str, 1, i - 1)>> \o Split(SubSeq(str, i + Len(sep), Len(str)), sep)

\* str.strip()
RECURSIVE LStrip(_)
LStrip(str) == IF str # <<>> /\ Head(str) = " " THEN LStrip(Tail(str)) ELSE str

RECURSIVE RStrip(_)
RStrip(str) ==
    IF str # <<>> /\ str[Len(str)] = " " THEN RStrip(SubSeq(str, 1, Len(str) - 1)) ELSE str

Strip(str) == RStrip(LStrip(str))

\* sep.join(list)
RECURSIVE Join(_, _)
Join(sep, list) ==
    IF list = <<>> THEN <<>>
    ELSE IF Len(list) = 1 THEN list[1]
    ELSE list[1] \o sep \o Join(sep, Tail(list))

\* set(list)
ToSet(list) == {list[i] : i \in DOMAIN list}

\* the orders in which a set may be iterated
RECURSIVE Orders(_)
Orders(S) ==
    IF S = {} THEN {<<>>}
    ELSE UNION {{<<x>> \o rest : rest \in Orders(S \ {x})} : x \in S}

\* words = set((name + ", " + tagline).replace("&", ",").replace("|", ",").replace("-", ",").split(","))
Words(name, tagline) ==
    ToSet(Split(Replace(Replace(Replace(name \o <<",", " ">> \o tagline,
                                        "&", ","), "|", ","), "-", ","),
                <<",">>))

\* [word.strip() for word in words if word.strip()], words iterated in order
StrippedWords(order) ==
    LET kept == SelectSeq(order, LAMBDA word : Strip(word) # <<>>)
    IN  [i \in DOMAIN kept |-> Strip(kept[i])]

\* the values generate_keywords may return, one per iteration order of the set
generate_keywords(name, tagline) ==
    {Join(<<",", " ">>, StrippedWords(order)) : order \in Orders(Words(name, tagline))}

GenerateKeywords ==
    /\ pc = "generate_keywords"
    /\ \E k \in generate_keywords(self.name, self.tagline) :
           self' = [self EXCEPT !.keyword = k]
    /\ pc' = "keywords_returned"
    /\ UNCHANGED <<job_vars, env, fetched>>

VeniceName == <<"Venice">>
VeniceTagline ==
    <<"Private", " ", "&", " ", "censorship", "-", "resistant", " ", "AI">>

KeywordInputs ==
    {<<n, t>> : n \in StringsUpTo(MaxNameLen) \ {<<>>}, t \in StringsUpTo(MaxTaglineLen)}
    \cup {<<VeniceName, VeniceTagline>>}

InitKeywords ==
    /\ pc = "generate_keywords"
    /\ \E in \in KeywordInputs :
           self = [name |-> in[1], tagline |-> in[2], keyword |-> <<>>]
    /\ env = NoEnv
    /\ fetched = 0
    /\ source = "none"
    /\ products = <<>>
    /\ FetchIdle
    /\ WebhookIdle

NextKeywords == GenerateKeywords

SpecKeywords == InitKeywords /\ [][NextKeywords]_vars

\* C7: for every name and tagline the keyword, split on ", ", yields tokens
\* that are trimmed, non-empty and pairwise distinct, and for name "Venice",
\* tagline "Private & censorship-resistant AI" the tokens include "Venice",
\* "Private" and "censorship-resistant AI".
Tokens(keyword) == IF keyword = <<>> THEN <<>> ELSE Split(keyword, <<",", " ">>)

C7_KeywordsDeduplicated ==
    pc = "keywords_returned" =>
        LET toks == Tokens(self.keyword)
        IN  /\ \A i \in DOMAIN toks : toks[i] # <<>> /\ Strip(toks[i]) = toks[i]
            /\ \A i, j \in DOMAIN toks : i # j => toks[i] # toks[j]
            /\ (self.name = VeniceName /\ self.tagline = VeniceTagline) =>
                   {<<"Venice">>, <<"Private">>,
                    <<"censorship", "-", "resistant", " ", "AI">>} \subseteq ToSet(toks)

----------------------------------------------------------------------------
(* Product.get_image_url_from_media, called on its own *)

MediaUrls == {<<>>, <<"m1.png">>, <<"m2.png">>}

\* media: None (present = FALSE) or a list of entries; an entry's url is empty
\* when the key is missing, null or ""
MediaInputs ==
    {[present |-> FALSE, entries |-> <<>>]}
    \cup {[present |-> TRUE, entries |-> e] :
            e \in {<<>>} \cup {<<[url |-> u]>> : u \in MediaUrls}
                  \cup {<<[url |-> u], [url |-> w]>> : u \in MediaUrls, w \in MediaUrls}}

\* a meta tag of the page: absent, present without a content attribute, or
\* present with a content
TagsWith(content) ==
    {[present |-> FALSE, has_content |-> FALSE, content |-> <<>>],
     [present |-> TRUE, has_content |-> FALSE, content |-> <<>>],
     [present |-> TRUE, has_content |-> TRUE, content |-> <<>>],
     [present |-> TRUE, has_content |-> TRUE, content |-> content]}

NoTag == [present |-> FALSE, has_content |-> FALSE, content |-> <<>>]

\* what requests.get(self.url, timeout=10) meets
PageInputs ==
    {[kind |-> "error", status |-> 0, og |-> NoTag, twitter |-> NoTag]}
    \cup {[kind |-> "response", status |-> st, og |-> og, twitter |-> tw] :
            st \in {200, 404, 500}, og \in TagsWith(<<"og.png">>),
            tw \in TagsWith(<<"tw.png">>)}

\* BeautifulSoup.find(name=None, attrs={}, recursive=True, string=None, **kwargs)
\* called as find("meta", <keyword>=...): the positional argument already
\* binds name, so a keyword argument called name is a TypeError
FindRaises(keyword) == keyword = "name"

\* tag["content"]: KeyError when the attribute is missing
ContentRaises(tag) == ~tag.has_content

\* fetch_og_image_url(): every exception is caught and gives ""
fetch_og_image_url(page) ==
    IF page.kind = "error" THEN <<>>
    ELSE IF page.status = 200
    THEN IF FindRaises("property") THEN <<>>
         ELSE IF page.og.present
         THEN IF ContentRaises(page.og) THEN <<>> ELSE page.og.content
         ELSE IF FindRaises("name") THEN <<>>
         ELSE IF page.twitter.present
         THEN IF ContentRaises(page.twitter) THEN <<>> ELSE page.twitter.content
         ELSE <<>>
    ELSE <<>>

\* if media and isinstance(media, list) and len(media) > 0:
\*     image_url = media[0].get('url', ''); if image_url: ...
HasMediaUrl(media) ==
    media.present /\ Len(media.entries) > 0 /\ media.entries[1].url # <<>>

GetImageUrlFromMedia ==
    /\ pc = "get_image_url_from_media"
    /\ IF HasMediaUrl(env.media)
       THEN /\ self' = [self EXCEPT !.og_image_url = env.media.entries[1].url]
            /\ UNCHANGED fetched
       ELSE /\ self' = [self EXCEPT !.og_image_url = fetch_og_image_url(env.page)]
            /\ fetched' = fetched + 1
    /\ pc' = "image_returned"
    /\ UNCHANGED <<job_vars, env>>

InitImage ==
    /\ pc = "get_image_url_from_media"
    /\ self = [name |-> <<"a">>, og_image_url |-> <<>>]
    /\ \E m \in MediaInputs, p \in PageInputs : env = [media |-> m, page |-> p]
    /\ fetched = 0
    /\ source = "none"
    /\ products = <<>>
    /\ FetchIdle
    /\ WebhookIdle

NextImage == GetImageUrlFromMedia

SpecImage == InitImage /\ [][NextImage]_vars

\* C8: og_image_url is (a) the url of the first media entry when present and
\* non-empty, with no page fetch; (b) otherwise, from the page fetched with
\* status 200, the content of the og:image tag if one exists, else that of the
\* twitter:image tag if one exists; (c) otherwise the empty string.
TagContent(tag) == IF tag.has_content THEN tag.content ELSE <<>>

C8_ImageResolutionOrder ==
    pc = "image_returned" =>
        LET m == env.media
            p == env.page
        IN  IF m.present /\ m.entries # <<>> /\ m.entries[1].url # <<>>
            THEN self.og_image_url = m.entries[1].url /\ fetched = 0
            ELSE IF p.kind = "response" /\ p.status = 200 /\ p.og.present
            THEN self.og_image_url = TagContent(p.og)
            ELSE IF p.kind = "response" /\ p.status = 200 /\ p.twitter.present
            THEN self.og_image_url = TagContent(p.twitter)
            ELSE self.og_image_url = <<>>

====
